---- MODULE Spec2Model ----
(***************************************************************************)
(* Bokeh-to-image bridge: pywry.export_bokeh_to_png and                    *)
(* wry_bokeh_helper.bokeh_to_image.                                        *)
(*                                                                         *)
(* Each invocation runs in a thread of its own.  A thread's position (pc)  *)
(* walks the function body: [json.dumps] -> render_bokeh -> urlopen ->     *)
(* response.read -> Image.open -> return, and an exception raised by any   *)
(* step leaves the function at once (the body has no try/except).          *)
(*                                                                         *)
(* The collaborators the functions call (the native renderer, urllib, PIL) *)
(* are a deterministic fixture: a table from plot "type" to locator and    *)
(* from locator to what opening, reading and decoding it does.             *)
(***************************************************************************)
EXTENDS Naturals, Sequences, FiniteSets, TLC

\* Concurrent callers; each runs one invocation at a time.
Threads == {"t1", "t2"}

\* How many invocations one caller makes in sequence.
MaxCalls == 2

Variants == {"pywry", "wry_bokeh_helper"}

\* An unbound Python local is <<>>, a bound one is <<value>>; None is <<>>.
Unbound == <<>>

Ok(v) == [ok |-> TRUE, exc |-> "", value |-> <<v>>]
Raise(e) == [ok |-> FALSE, exc |-> e, value |-> <<>>]

(***************************************************************************)
(* Inputs.  A plot description is a dict[str, Any]: a sequence of items    *)
(* <<key, python type, value>>.  An item of type "object" has no JSON      *)
(* form.                                                                   *)
(***************************************************************************)
PlotOf(type) == << <<"type", "str", type>>, <<"interactive", "bool", "False">> >>

PlotBad == << <<"type", "str", "circle">>, <<"callback", "object", "<function>">> >>

PlotTypes == {"circle", "bar", "missing", "reset", "garbage", "jpeg", "truncated"}

Plots == {PlotOf(ty) : ty \in PlotTypes} \cup {PlotBad}

\* resource: tuple[ResourceType, str] | None
Resources == {Unbound, <<"cdn", "https://cdn.bokeh.org">>, <<"local", "/nonexistent">>}

JsonRepresentable(p) == \A i \in 1..Len(p) : p[i][2] \in {"str", "int", "bool"}

(***************************************************************************)
(* json.dumps: the text is a sequence of tokens <<class, lexeme>>.         *)
(***************************************************************************)
DumpsValueRepr(type, val) ==
    CASE type = "str" -> <<"string", val>>
      [] type = "int" -> <<"number", val>>
      [] OTHER -> <<"literal", val>>

DumpsValue(type, val) ==
    CASE type = "str" -> <<"string", val>>
      [] type = "int" -> <<"number", val>>
      [] OTHER -> <<"literal", IF val = "True" THEN "true" ELSE "false">>

DumpsText(p) ==
    IF Len(p) = 0 THEN << <<"punct", "{">>, <<"punct", "}">> >>
    ELSE [i \in 1..(4 * Len(p) + 1) |->
            IF i = 1 THEN <<"punct", "{">>
            ELSE LET j == ((i - 2) \div 4) + 1
                     r == (i - 2) % 4
                 IN CASE r = 0 -> <<"string", p[j][1]>>
                      [] r = 1 -> <<"punct", ":">>
                      [] r = 2 -> DumpsValue(p[j][2], p[j][3])
                      [] OTHER -> <<"punct", IF j = Len(p) THEN "}" ELSE ",">>]

JsonDumpsDefaultStr(p) ==
    Ok(DumpsText([i \in 1..Len(p) |->
          IF p[i][2] \in {"str", "int", "bool"} THEN p[i] ELSE <<p[i][1], "str", p[i][3]>>]))

\* json.dumps(bokeh_json_item): the JSON text, or TypeError.
JsonDumps(p) ==
    IF JsonRepresentable(p) THEN Ok(DumpsText(p)) ELSE Raise("TypeError")

\* The two forms render_bokeh is handed.
Text(s) == [form |-> "str", body |-> s]
Dict(p) == [form |-> "dict", body |-> p]

(***************************************************************************)
(* The native renderer.  It reads a JSON document: a sequence of items     *)
(* <<key, json type, value>>.                                              *)
(***************************************************************************)
WellFormedText(s) ==
    /\ Len(s) >= 2
    /\ s[1] = <<"punct", "{">>
    /\ s[Len(s)] = <<"punct", "}">>
    /\ \/ Len(s) = 2
       \/ /\ (Len(s) - 1) % 4 = 0
          /\ \A i \in 2..Len(s) :
               LET j == ((i - 2) \div 4) + 1
                   r == (i - 2) % 4
               IN CASE r = 0 -> s[i][1] = "string"
                    [] r = 1 -> s[i] = <<"punct", ":">>
                    [] r = 2 -> \/ s[i][1] \in {"string", "number"}
                                \/ s[i] \in {<<"literal", "true">>, <<"literal", "false">>,
                                             <<"literal", "null">>}
                    [] OTHER -> s[i] = <<"punct", IF i = Len(s) THEN "}" ELSE ",">>

JsonLoads(s) ==
    IF ~WellFormedText(s) THEN Raise("RuntimeError")
    ELSE Ok([j \in 1..((Len(s) - 1) \div 4) |->
               LET k == s[4 * j - 2]
                   v == s[4 * j]
               IN <<k[2], IF v[1] = "literal" THEN "bool" ELSE v[1], v[2]>>])

\* The document a dict converts to; an "object" item has none.
ToJsonDoc(p) ==
    IF ~JsonRepresentable(p) THEN Raise("RuntimeError")
    ELSE Ok([j \in 1..Len(p) |->
               CASE p[j][2] = "str" -> <<p[j][1], "string", p[j][3]>>
                 [] p[j][2] = "int" -> <<p[j][1], "number", p[j][3]>>
                 [] OTHER -> <<p[j][1], "bool", IF p[j][3] = "True" THEN "true" ELSE "false">>])

\* The items of a dict that do convert (a lenient conversion skips the rest).
Convertible(p) == SelectSeq(p, LAMBDA it : it[2] \in {"str", "int", "bool"})

DocType(doc) ==
    LET hits == {i \in 1..Len(doc) : doc[i][1] = "type" /\ doc[i][2] = "string"}
    IN IF hits = {} THEN "" ELSE doc[CHOOSE i \in hits : TRUE][3]

LocatorOf(type) ==
    CASE type = "circle" -> "data:image/png;base64,circle"
      [] type = "bar" -> "http://127.0.0.1/bar.png"
      [] type = "missing" -> "http://127.0.0.1/missing.png"
      [] type = "reset" -> "http://127.0.0.1/reset.png"
      [] type = "garbage" -> "data:text/plain,garbage"
      [] type = "jpeg" -> "file:///tmp/plot.jpg"
      [] type = "truncated" -> "file:///tmp/truncated.png"
      [] OTHER -> ""

\* The renderer on a document: a locator, or an error when the resource
\* cannot be loaded or the plot type is unknown.
RenderDoc(doc, res) ==
    IF res = <<"local", "/nonexistent">> \/ LocatorOf(DocType(doc)) = ""
    THEN Raise("RuntimeError")
    ELSE Ok(LocatorOf(DocType(doc)))

\* render_bokeh(payload, resource): every result the call can have.  The text
\* form is parsed; the dict form is converted, and what the conversion does with
\* a value that has no JSON form is not fixed (reject, or skip the item).
RenderOutcomes(payload, res) ==
    IF payload.form = "str"
    THEN LET d == JsonLoads(payload.body)
         IN {IF d.ok THEN RenderDoc(d.value[1], res) ELSE Raise(d.exc)}
    ELSE LET d == ToJsonDoc(payload.body)
         IN IF d.ok THEN {RenderDoc(d.value[1], res)}
            ELSE {Raise(d.exc), RenderDoc(ToJsonDoc(Convertible(payload.body)).value[1], res)}

(***************************************************************************)
(* urllib.request.urlopen and the stream it returns.                       *)
(***************************************************************************)
Scheme(url) ==
    CASE url \in {"data:image/png;base64,circle", "data:text/plain,garbage"} -> "data"
      [] url \in {"file:///tmp/plot.jpg", "file:///tmp/truncated.png"} -> "file"
      [] OTHER -> "http"

\* The bytes behind a locator: the signature, the size the header declares,
\* and whether the image data after the header is complete.
Bytes(magic, w, h, body) == [magic |-> magic, width |-> w, height |-> h, body |-> body]

EmptyBytes == Bytes("", 0, 0, "")

Content(url) ==
    CASE url = "data:image/png;base64,circle" -> Bytes("PNG", 10, 10, "complete")
      [] url = "http://127.0.0.1/bar.png" -> Bytes("PNG", 20, 15, "complete")
      [] url = "data:text/plain,garbage" -> Bytes("text", 0, 0, "complete")
      [] url = "file:///tmp/plot.jpg" -> Bytes("JPEG", 10, 10, "complete")
      [] url = "file:///tmp/truncated.png" -> Bytes("PNG", 10, 10, "truncated")
      [] OTHER -> EmptyBytes

\* urlopen(png): arg is the local png, unbound or bound.
UrlOpenResult(arg) ==
    IF arg = Unbound THEN Raise("UnboundLocalError")
    ELSE IF arg[1] = "http://127.0.0.1/missing.png" THEN Raise("URLError")
    ELSE Ok(arg[1])

\* The stream object urlopen returns.  old is the stream this caller's previous
\* invocation opened, if it still exists.
OpenStreamCached(old, url) ==
    IF old # Unbound /\ old[1].url = url /\ ~old[1].closed THEN old
    ELSE <<[url |-> url, eof |-> FALSE, closed |-> FALSE]>>

OpenStream(old, url) == <<[url |-> url, eof |-> FALSE, closed |-> FALSE]>>

\* response.read(): at end of stream it returns b""; a connection that drops
\* before the declared length raises IncompleteRead.
ReadResult(resp) ==
    IF resp = Unbound THEN Raise("UnboundLocalError")
    ELSE IF resp[1].eof THEN Ok(EmptyBytes)
    ELSE IF resp[1].url = "http://127.0.0.1/reset.png" THEN Raise("IncompleteRead")
    ELSE Ok(Content(resp[1].url))

\* The stream after read(): at end of stream; an HTTP response releases its
\* connection when the body is exhausted or the read fails, a file or data
\* stream stays open until it is closed or finalised.
AfterRead(resp) ==
    IF resp = Unbound THEN resp
    ELSE <<[resp[1] EXCEPT !.eof = TRUE,
                           !.closed = @ \/ Scheme(resp[1].url) = "http"]>>

\* The stream once the garbage collector has finalised it.
Finalised(resp) ==
    IF resp = Unbound THEN resp ELSE <<[resp[1] EXCEPT !.closed = TRUE]>>

(***************************************************************************)
(* PIL.Image.open(io.BytesIO(data)): identifies the format from the        *)
(* signature, among every format PIL knows, and reads the header; the      *)
(* image data is not decoded until the image is used.                      *)
(***************************************************************************)
ImageFormats == {"PNG", "JPEG"}

ImageOpen(buf) ==
    IF buf = Unbound THEN Raise("UnboundLocalError")
    ELSE IF buf[1].magic \in ImageFormats
    THEN Ok([format |-> buf[1].magic, size |-> <<buf[1].width, buf[1].height>>])
    ELSE Raise("UnidentifiedImageError")

ValidPNG(b) == b.magic = "PNG" /\ b.body = "complete"

(***************************************************************************)
(* State.  Every variable is per caller: the arguments and locals of the   *)
(* invocation it is in (or has just left), what the invocation did, and    *)
(* what the caller holds.                                                  *)
(***************************************************************************)
VARIABLES
    pc,        \* position in the function body
    variant,   \* which module's function the invocation runs
    plot,      \* argument bokeh_json_item
    resource,  \* argument resource
    rendered,  \* the arguments render_bokeh received
    png,       \* local png: the locator render_bokeh returned
    response,  \* the stream object urlopen returned (local response refers to it)
    data,      \* the bytes response.read() returned
    outcome,   \* how the invocation ended: the image returned or the exception raised
    steps,     \* the external calls the invocation made, in order, with their results
    calls,     \* invocations the caller has started
    prev       \* the outcome of the caller's previous invocation, when it had the same arguments

vars == <<pc, variant, plot, resource, rendered, png, response, data, outcome, steps,
          calls, prev>>

Pending == [kind |-> "pending", exc |-> "", image |-> <<>>]
Returned(img) == [kind |-> "returned", exc |-> "", image |-> img]

\* An exception leaves the function as it is: nothing catches or wraps it.
Surface(exc) == [kind |-> "raised", exc |-> exc, image |-> <<>>]

Step(op, r) == [op |-> op, ok |-> r.ok, exc |-> r.exc]

Done(t) == pc[t] \in {"returned", "raised"}

Init ==
    /\ pc = [t \in Threads |-> "idle"]
    /\ variant = [t \in Threads |-> "pywry"]
    /\ plot = [t \in Threads |-> <<>>]
    /\ resource = [t \in Threads |-> Unbound]
    /\ rendered = [t \in Threads |-> Unbound]
    /\ png = [t \in Threads |-> Unbound]
    /\ response = [t \in Threads |-> Unbound]
    /\ data = [t \in Threads |-> Unbound]
    /\ outcome = [t \in Threads |-> Pending]
    /\ steps = [t \in Threads |-> <<>>]
    /\ calls = [t \in Threads |-> 0]
    /\ prev = [t \in Threads |-> Unbound]

ContinueSwallow(r, here, next) == next
ContinueFallback(r, here, next) == IF r.ok THEN next ELSE "decode"
ContinueRetry(r, here, next) == IF r.ok THEN next ELSE here

\* Where control goes after a call made at position here: to the next
\* statement, or out of the function when the call raised.
Continue(r, here, next) == IF r.ok THEN next ELSE "raised"

\* The function is entered with arguments (p, res): a fresh frame, no local
\* bound.  A stream an earlier invocation left open is still on the heap, as it
\* was; no name of the new frame refers to it.
Enter(t, v, p, res, first) ==
    /\ pc[t] \in {"idle", "returned", "raised"}
    /\ calls[t] < MaxCalls
    /\ pc' = [pc EXCEPT ![t] = first]
    /\ variant' = [variant EXCEPT ![t] = v]
    /\ plot' = [plot EXCEPT ![t] = p]
    /\ resource' = [resource EXCEPT ![t] = res]
    /\ rendered' = [rendered EXCEPT ![t] = Unbound]
    /\ png' = [png EXCEPT ![t] = Unbound]
    /\ data' = [data EXCEPT ![t] = Unbound]
    /\ outcome' = [outcome EXCEPT ![t] = Pending]
    /\ steps' = [steps EXCEPT ![t] = <<>>]
    /\ calls' = [calls EXCEPT ![t] = @ + 1]
    /\ prev' = [prev EXCEPT ![t] =
                  IF Done(t) /\ variant[t] = v /\ plot[t] = p /\ resource[t] = res
                  THEN <<outcome[t]>> ELSE Unbound]
    /\ UNCHANGED response

\* pywry.export_bokeh_to_png(bokeh_json_item, resource): the first statement
\* is the render call.
export_bokeh_to_png(t) ==
    \E p \in Plots, res \in Resources : Enter(t, "pywry", p, res, "render")

\* wry_bokeh_helper.bokeh_to_image(bokeh_json_item, resource): the argument of
\* the render call, json.dumps(bokeh_json_item), is evaluated first.
bokeh_to_image(t) ==
    \E p \in Plots, res \in Resources : Enter(t, "wry_bokeh_helper", p, res, "dumps")

\* The position after a call with result r, and the outcome when it leaves
\* the function.
Advance(t, r, here, next) ==
    LET to == Continue(r, here, next)
    IN /\ pc' = [pc EXCEPT ![t] = to]
       /\ outcome' = [outcome EXCEPT ![t] =
                        IF to = "raised" THEN Surface(r.exc)
                        ELSE IF to = "returned" THEN Returned(r.value)
                        ELSE Pending]

\* The first argument of render_bokeh: the dict itself (pywry), or the JSON
\* text json.dumps returned (wry_bokeh_helper).
RenderArg(t, text) ==
    IF variant[t] = "pywry" THEN Dict(plot[t]) ELSE Text(text)

ResourceArgDefault(res) == IF res = Unbound THEN <<"cdn", "https://cdn.bokeh.org">> ELSE res

\* The second argument of render_bokeh: resource, as received.
ResourceArg(res) == res

\* json.dumps(bokeh_json_item) raised: the function is left before render_bokeh
\* is called.
json_dumps_raises(t) ==
    /\ pc[t] = "dumps"
    /\ ~JsonDumps(plot[t]).ok
    /\ Advance(t, JsonDumps(plot[t]), "dumps", "render")
    /\ UNCHANGED <<variant, plot, resource, rendered, png, response, data, steps, calls, prev>>

\* png = render_bokeh(<payload>, resource)
render_bokeh(t) ==
    /\ \/ pc[t] = "render"
       \/ pc[t] = "dumps" /\ JsonDumps(plot[t]).ok
    /\ LET text == IF pc[t] = "dumps" THEN JsonDumps(plot[t]).value[1] ELSE <<>>
           arg == RenderArg(t, text)
           res == ResourceArg(resource[t])
       IN \E r \in RenderOutcomes(arg, res) :
            /\ rendered' = [rendered EXCEPT ![t] = <<[payload |-> arg, resource |-> res]>>]
            /\ steps' = [steps EXCEPT ![t] = Append(@, Step("render", r))]
            /\ png' = [png EXCEPT ![t] = r.value]
            /\ Advance(t, r, "render", "urlopen")
    /\ UNCHANGED <<variant, plot, resource, response, data, calls, prev>>

UrlArgShared(t) ==
    LET others == {u \in Threads \ {t} : png[u] # Unbound}
    IN IF others = {} THEN png[t] ELSE png[CHOOSE u \in others : TRUE]

\* The argument of urlopen: this invocation's local png.
UrlArg(t) == png[t]

\* response = urllib.request.urlopen(png)
urlopen(t) ==
    /\ pc[t] = "urlopen"
    /\ LET r == UrlOpenResult(UrlArg(t))
       IN /\ steps' = [steps EXCEPT ![t] = Append(@, Step("urlopen", r))]
          /\ response' = [response EXCEPT ![t] =
                            IF r.ok THEN OpenStream(@, r.value[1]) ELSE Unbound]
          /\ Advance(t, r, "urlopen", "read")
    /\ UNCHANGED <<variant, plot, resource, rendered, png, data, calls, prev>>

\* response.read()
read(t) ==
    /\ pc[t] = "read"
    /\ LET r == ReadResult(response[t])
       IN /\ steps' = [steps EXCEPT ![t] = Append(@, Step("read", r))]
          /\ response' = [response EXCEPT ![t] = AfterRead(@)]
          /\ data' = [data EXCEPT ![t] = r.value]
          /\ Advance(t, r, "read", "decode")
    /\ UNCHANGED <<variant, plot, resource, rendered, png, calls, prev>>

\* return Image.open(io.BytesIO(<data>)).  On return the frame drops its
\* reference to the stream: the stream is finalised at once (reference
\* counting) or stays as it is until a later collection.
image_open(t) ==
    /\ pc[t] = "decode"
    /\ LET r == ImageOpen(data[t])
       IN /\ steps' = [steps EXCEPT ![t] = Append(@, Step("decode", r))]
          /\ Advance(t, r, "decode", "returned")
          /\ \E collected \in BOOLEAN :
               response' = [response EXCEPT ![t] =
                              IF r.ok /\ collected THEN Finalised(@) ELSE @]
    /\ UNCHANGED <<variant, plot, resource, rendered, png, data, calls, prev>>

\* Concurrent invocations: every thread makes one invocation, and the steps of
\* the invocations interleave freely.
Next ==
    \E t \in Threads :
        \/ calls[t] = 0 /\ export_bokeh_to_png(t)
        \/ calls[t] = 0 /\ bokeh_to_image(t)
        \/ json_dumps_raises(t)
        \/ render_bokeh(t)
        \/ urlopen(t)
        \/ read(t)
        \/ image_open(t)

Spec == Init /\ [][Next]_vars

\* One caller making up to MaxCalls invocations, each after the one before
\* has ended.
Caller == "t1"

NextSeq ==
    \/ export_bokeh_to_png(Caller)
    \/ bokeh_to_image(Caller)
    \/ json_dumps_raises(Caller)
    \/ render_bokeh(Caller)
    \/ urlopen(Caller)
    \/ read(Caller)
    \/ image_open(Caller)

SpecSeq == Init /\ [][NextSeq]_vars

(***************************************************************************)
(* The function body as one function of its arguments: every outcome an    *)
(* invocation run alone can have.                                          *)
(***************************************************************************)
Exc(e) == [kind |-> "raised", exc |-> e, image |-> <<>>]

Fetched(url) ==
    LET o == UrlOpenResult(<<url>>)
        rd == ReadResult(<<[url |-> url, eof |-> FALSE, closed |-> FALSE]>>)
        img == ImageOpen(rd.value)
    IN IF ~o.ok THEN Exc(o.exc)
       ELSE IF ~rd.ok THEN Exc(rd.exc)
       ELSE IF ~img.ok THEN Exc(img.exc)
       ELSE [kind |-> "returned", exc |-> "", image |-> img.value]

Convert(v, p, res) ==
    LET d == JsonDumps(p)
    IN IF v = "wry_bokeh_helper" /\ ~d.ok THEN {Exc(d.exc)}
       ELSE LET arg == IF v = "pywry" THEN Dict(p) ELSE Text(d.value[1])
            IN {IF r.ok THEN Fetched(r.value[1]) ELSE Exc(r.exc) :
                  r \in RenderOutcomes(arg, res)}

(***************************************************************************)
(* Properties.                                                             *)
(***************************************************************************)
Pipeline == <<"render", "urlopen", "read", "decode">>

Ops(t) == [i \in 1..Len(steps[t]) |-> steps[t][i].op]

IsPrefix(a, b) == Len(a) <= Len(b) /\ \A i \in 1..Len(a) : a[i] = b[i]

Made(t, op) == \E i \in 1..Len(steps[t]) : steps[t][i].op = op

Failed(t, op) == \E i \in 1..Len(steps[t]) : steps[t][i].op = op /\ ~steps[t][i].ok

\* The invocation ended by raising exactly what its last external call raised.
SurfacedLast(t) ==
    /\ pc[t] = "raised"
    /\ outcome[t].kind = "raised"
    /\ outcome[t].exc = steps[t][Len(steps[t])].exc
    /\ ~steps[t][Len(steps[t])].ok

\* C1: in either function, when render_bokeh raises, the invocation ends with
\* that exception raised to the caller, and it calls neither urlopen, read nor
\* Image.open.
C1_RenderFailureSurfaces ==
    \A t \in Threads :
        Failed(t, "render") =>
            /\ Ops(t) = <<"render">>
            /\ SurfacedLast(t)
            /\ png[t] = Unbound /\ response[t] = Unbound /\ data[t] = Unbound

C1_Witness ==
    \E a \in Threads, b \in Threads :
        /\ variant[a] = "pywry" /\ variant[b] = "wry_bokeh_helper"
        /\ Failed(a, "render") /\ Failed(b, "render")
        /\ pc[a] = "raised" /\ pc[b] = "raised"

\* C2: in either function, when render_bokeh succeeds and urlopen or read
\* raises, the invocation ends with that exception raised to the caller and
\* Image.open is not called.
C2_FetchFailureSurfaces ==
    \A t \in Threads :
        (Failed(t, "urlopen") \/ Failed(t, "read")) =>
            /\ steps[t][1] = [op |-> "render", ok |-> TRUE, exc |-> ""]
            /\ SurfacedLast(t)
            /\ ~Made(t, "decode")
            /\ outcome[t].image = <<>>

C2_Witness ==
    \E a \in Threads, b \in Threads :
        /\ variant[a] = "pywry" /\ variant[b] = "wry_bokeh_helper"
        /\ Failed(a, "urlopen") /\ Failed(b, "read")
        /\ pc[a] = "raised" /\ pc[b] = "raised"

\* C3: in either function, when render and fetch succeed and the fetched bytes
\* are not a valid PNG, the invocation ends with the decoder's exception; so an
\* invocation that returns an image fetched a valid PNG.
C3_DecodeFailureOnInvalidPng ==
    \A t \in Threads :
        /\ (Done(t) /\ data[t] # Unbound /\ ~Failed(t, "read") /\ ~ValidPNG(data[t][1]))
              => (pc[t] = "raised" /\ Failed(t, "decode"))
        /\ pc[t] = "returned" => (data[t] # Unbound /\ ValidPNG(data[t][1]))

\* C4: the external calls of an invocation are a prefix of (render, urlopen,
\* read, decode): each at most once, each after the one before succeeded, and
\* a call that failed is the last one made.
C4_StepsArePipelinePrefix ==
    \A t \in Threads :
        /\ IsPrefix(Ops(t), Pipeline)
        /\ \A i \in 1..Len(steps[t]) : ~steps[t][i].ok => i = Len(steps[t])
        /\ Failed(t, "render") \/ Failed(t, "urlopen") \/ Failed(t, "read")
             \/ Failed(t, "decode") => pc[t] = "raised"

C4_Witness ==
    \E a \in Threads, b \in Threads :
        /\ pc[a] = "returned" /\ Ops(a) = Pipeline
        /\ pc[b] = "raised" /\ Ops(b) = <<"render", "urlopen", "read">>

\* C5: when an invocation returns an image, the stream it opened has been read
\* to its end and is closed.
C5_StreamClosedOnReturn ==
    \A t \in Threads :
        pc[t] = "returned" =>
            /\ response[t] # Unbound
            /\ response[t][1].eof
            /\ response[t][1].closed

\* C6: render_bokeh receives as resource exactly what the caller passed: the
\* same pair, or None when the caller passed none.
C6_ResourcePassedUnchanged ==
    \A t \in Threads :
        rendered[t] # Unbound => rendered[t][1].resource = resource[t]

C6_Witness ==
    \E a \in Threads, b \in Threads :
        /\ rendered[a] # Unbound /\ resource[a] = Unbound
        /\ rendered[b] # Unbound /\ resource[b] = <<"cdn", "https://cdn.bokeh.org">>
        /\ variant[a] # variant[b]

Local(t) == <<pc[t], variant[t], plot[t], resource[t], rendered[t], png[t], response[t],
              data[t], outcome[t], steps[t], calls[t], prev[t]>>

OwnOutcome ==
    \A t \in Threads :
        Done(t) => outcome[t] \in Convert(variant[t], plot[t], resource[t])

Isolated ==
    \A t \in Threads :
        Local(t)' # Local(t) => \A u \in Threads \ {t} : Local(u)' = Local(u)

\* C7: under every interleaving of concurrent invocations, each invocation
\* ends as it would have run alone on its own arguments, and a step of one
\* invocation changes nothing of another.
C7_InvocationsIndependent == [](OwnOutcome) /\ [][Isolated]_vars

C7_Witness ==
    \E a \in Threads, b \in Threads :
        /\ pc[a] = "returned" /\ pc[b] = "returned"
        /\ plot[a] # plot[b]
        /\ outcome[a].image # outcome[b].image

Deterministic(t) == Cardinality(Convert(variant[t], plot[t], resource[t])) = 1

\* C8: an invocation that repeats the arguments of the caller's previous one,
\* against a deterministic renderer, ends as the previous one did: both return
\* images of the same size, or both raise the same exception.
C8_RepeatGivesSameSize ==
    \A t \in Threads :
        (Done(t) /\ prev[t] # Unbound /\ Deterministic(t)) =>
            /\ outcome[t].kind = prev[t][1].kind
            /\ outcome[t].exc = prev[t][1].exc
            /\ outcome[t].kind = "returned" =>
                  outcome[t].image[1].size = prev[t][1].image[1].size

C8_Witness ==
    /\ pc[Caller] = "returned"
    /\ calls[Caller] = 2
    /\ prev[Caller] # Unbound
    /\ prev[Caller][1].kind = "returned"
    /\ outcome[Caller].image[1].size = <<10, 10>>

SideBySide(a, b) ==
    /\ calls[a] > 0 /\ calls[b] > 0
    /\ variant[a] = "pywry" /\ variant[b] = "wry_bokeh_helper"
    /\ plot[a] = plot[b] /\ resource[a] = resource[b]
    /\ Done(a) /\ Done(b)

\* C9 as stated: on the same arguments the two functions make the same external
\* calls and end the same way, whatever the plot description.
C9_SameStepsAnyPlot ==
    \A a \in Threads, b \in Threads :
        SideBySide(a, b) => (steps[a] = steps[b] /\ outcome[a] = outcome[b])

\* C9 amended: on the same arguments, with a plot description json.dumps can
\* serialize, the two functions make the same external calls and end the same
\* way; render_bokeh receives the dict from export_bokeh_to_png and a JSON
\* text from bokeh_to_image.
C9_SameStepsJsonPlot ==
    \A a \in Threads, b \in Threads :
        (SideBySide(a, b) /\ JsonRepresentable(plot[a])) =>
            /\ steps[a] = steps[b]
            /\ outcome[a] = outcome[b]
            /\ rendered[a][1].payload = [form |-> "dict", body |-> plot[a]]
            /\ rendered[b][1].payload.form = "str"

C9_Witness ==
    \E a \in Threads, b \in Threads :
        /\ SideBySide(a, b)
        /\ JsonRepresentable(plot[a])
        /\ pc[a] = "returned" /\ pc[b] = "returned"

\* C10: bokeh_to_image on a plot description with no JSON form raises from
\* json.dumps before any external call; export_bokeh_to_png never serializes
\* and its first step is render_bokeh on the caller's dict.
C10_SerializationFailsBeforeRender ==
    \A t \in Threads :
        /\ (calls[t] > 0 /\ variant[t] = "wry_bokeh_helper" /\ ~JsonRepresentable(plot[t])
               /\ pc[t] # "dumps") =>
              /\ pc[t] = "raised"
              /\ outcome[t] = [kind |-> "raised", exc |-> "TypeError", image |-> <<>>]
              /\ steps[t] = <<>>
              /\ rendered[t] = Unbound
        /\ (calls[t] > 0 /\ variant[t] = "pywry") =>
              /\ pc[t] # "dumps"
              /\ pc[t] # "render" =>
                    /\ steps[t] # <<>>
                    /\ steps[t][1].op = "render"
                    /\ rendered[t] # Unbound
                    /\ rendered[t][1].payload = [form |-> "dict", body |-> plot[t]]

C10_Witness ==
    \E a \in Threads, b \in Threads :
        /\ variant[a] = "wry_bokeh_helper" /\ plot[a] = PlotBad /\ pc[a] = "raised"
        /\ variant[b] = "pywry" /\ plot[b] = PlotBad /\ Done(b)

====
